---- MODULE Spec2Model ----
(***************************************************************************)
(* Model of pkgs/servers/web-apps/lemmy/update.py: the script that         *)
(* resolves the latest lemmy server release and lemmy-ui tag, obtains four *)
(* checksums and writes them, step by step, to pin.json.                   *)
(*                                                                         *)
(* A Python str is modelled as a tuple of one-character strings, so that   *)
(* parsing, prefix tests and splitting are computed rather than assumed;   *)
(* "" is the empty tuple << >>.                                            *)
(***************************************************************************)
EXTENDS Integers, Sequences, FiniteSets, TLC

(***************************************************************************)
(* Characters and elementary string functions                              *)
(***************************************************************************)
DigitSeq == <<"0", "1", "2", "3", "4", "5", "6", "7", "8", "9">>
LowerSeq == <<"a", "b", "c", "d", "e", "f", "g", "h", "i", "j", "k", "l", "m",
              "n", "o", "p", "q", "r", "s", "t", "u", "v", "w", "x", "y", "z">>
Digits == {DigitSeq[k] : k \in 1..Len(DigitSeq)}
Letters == {LowerSeq[k] : k \in 1..Len(LowerSeq)}
IdChars == Digits \cup Letters \cup {"-"}

\* int(c) of a digit character
DigitVal(c) == (CHOOSE k \in 1..Len(DigitSeq) : DigitSeq[k] = c) - 1

\* ord(c) on the characters of tags ('+' < '-' < '.' < digits < lower-case letters)
Code(c) ==
    IF c = "+" THEN 43
    ELSE IF c = "-" THEN 45
    ELSE IF c = "." THEN 46
    ELSE IF c \in Digits THEN 48 + DigitVal(c)
    ELSE 96 + (CHOOSE k \in 1..Len(LowerSeq) : LowerSeq[k] = c)

\* str.find(c) + 1: the first position of character c in s, 0 when absent
IndexOf(s, c) ==
    IF \E k \in 1..Len(s) : s[k] = c
    THEN CHOOSE k \in 1..Len(s) : s[k] = c /\ \A j \in 1..(k - 1) : s[j] # c
    ELSE 0

\* s.split(sep) for a one-character separator: always at least one part
RECURSIVE SplitOn(_, _)
SplitOn(s, sep) ==
    LET k == IndexOf(s, sep)
    IN  IF k = 0 THEN <<s>>
        ELSE <<SubSeq(s, 1, k - 1)>> \o SplitOn(SubSeq(s, k + 1, Len(s)), sep)

\* int(s) of a digit string
RECURSIVE NumVal(_)
NumVal(s) ==
    IF s = <<>> THEN 0
    ELSE 10 * NumVal(SubSeq(s, 1, Len(s) - 1)) + DigitVal(s[Len(s)])

AllDigits(s) == \A k \in 1..Len(s) : s[k] \in Digits

\* Python's str < str on identifier strings: lexicographic by code point
RECURSIVE StrLess(_, _)
StrLess(a, b) ==
    IF b = <<>> THEN FALSE
    ELSE IF a = <<>> THEN TRUE
    ELSE IF a[1] # b[1] THEN Code(a[1]) < Code(b[1])
    ELSE StrLess(Tail(a), Tail(b))

(***************************************************************************)
(* semver.Version.parse and the ordering of semver.Version                 *)
(***************************************************************************)
\* 0|[1-9]\d*
IsNumericId(p) == p # <<>> /\ AllDigits(p) /\ (Len(p) = 1 \/ p[1] # "0")

\* 0|[1-9]\d*|\d*[a-zA-Z-][0-9a-zA-Z-]*
IsPrereleaseId(p) ==
    /\ p # <<>>
    /\ \A k \in 1..Len(p) : p[k] \in IdChars
    /\ AllDigits(p) => (Len(p) = 1 \/ p[1] # "0")

\* [0-9a-zA-Z-]+
IsBuildId(p) == p # <<>> /\ \A k \in 1..Len(p) : p[k] \in IdChars

\* The fields of a semver.Version; ok = FALSE stands for ValueError.
ParsedVersion(valid, nums, pre, build) ==
    IF valid
    THEN [ok |-> TRUE, major |-> NumVal(nums[1]), minor |-> NumVal(nums[2]),
          patch |-> NumVal(nums[3]), prerelease |-> pre, build |-> build]
    ELSE [ok |-> FALSE, major |-> 0, minor |-> 0, patch |-> 0,
          prerelease |-> <<>>, build |-> <<>>]

\* The outcome of semver.Version.parse(s): ok = FALSE stands for ValueError.
\* The string must be major.minor.patch[-prerelease][+build] from its first
\* character to its last; prerelease = << >> stands for None.
StrictParse(s) ==
    LET plus  == IndexOf(s, "+")
        main  == IF plus = 0 THEN s ELSE SubSeq(s, 1, plus - 1)
        build == IF plus = 0 THEN <<>> ELSE SubSeq(s, plus + 1, Len(s))
        dash  == IndexOf(main, "-")
        core  == IF dash = 0 THEN main ELSE SubSeq(main, 1, dash - 1)
        pre   == IF dash = 0 THEN <<>> ELSE SubSeq(main, dash + 1, Len(main))
        nums  == SplitOn(core, ".")
        pres  == SplitOn(pre, ".")
        blds  == SplitOn(build, ".")
        valid == /\ Len(nums) = 3
                 /\ \A k \in 1..Len(nums) : IsNumericId(nums[k])
                 /\ dash # 0 => \A k \in 1..Len(pres) : IsPrereleaseId(pres[k])
                 /\ plus # 0 => \A k \in 1..Len(blds) : IsBuildId(blds[k])
    IN  ParsedVersion(valid, nums, pre, build)

\* The tag names that occur in the modelled repositories
Tag_1_0_0      == <<"1", ".", "0", ".", "0">>
Tag_1_0_5      == <<"1", ".", "0", ".", "5">>
Tag_1_0_10     == <<"1", ".", "0", ".", "1", "0">>
Tag_1_0_10_rc2 == <<"1", ".", "0", ".", "1", "0", "-", "r", "c", ".", "2">>
Tag_1_0_10_rc10 == <<"1", ".", "0", ".", "1", "0", "-", "r", "c", ".", "1", "0">>
Tag_1_1_0_rc1  == <<"1", ".", "1", ".", "0", "-", "r", "c", ".", "1">>
Tag_v1_0_0     == <<"v", "1", ".", "0", ".", "0">>
Tag_v1_0_5     == <<"v", "1", ".", "0", ".", "5">>
Tag_v1_1_0     == <<"v", "1", ".", "1", ".", "0">>
Tag_v1_1_0_rc1 == <<"v", "1", ".", "1", ".", "0", "-", "r", "c", ".", "1">>
Tag_garbage    == <<"g", "a", "r", "b", "a", "g", "e">>

KnownTags ==
    {Tag_1_0_0, Tag_1_0_5, Tag_1_0_10, Tag_1_0_10_rc2, Tag_1_0_10_rc10,
     Tag_1_1_0_rc1, Tag_v1_0_0, Tag_v1_0_5, Tag_v1_1_0, Tag_v1_1_0_rc1, Tag_garbage}

\* A parser that, unlike semver's, skips a leading "v"
VersionParse_AllowV(s) ==
    IF s # <<>> /\ s[1] = "v" THEN StrictParse(Tail(s)) ELSE StrictParse(s)

\* semver.Version.parse(s)
VersionParse(s) == StrictParse(s)

\* cmp of two prerelease identifiers: numeric ones by value and below
\* alphanumeric ones, alphanumeric ones as strings
CmpPrereleaseTag(a, b) ==
    IF AllDigits(a) /\ AllDigits(b)
    THEN (IF NumVal(a) < NumVal(b) THEN -1 ELSE IF NumVal(a) > NumVal(b) THEN 1 ELSE 0)
    ELSE IF AllDigits(a) THEN -1
    ELSE IF AllDigits(b) THEN 1
    ELSE IF StrLess(a, b) THEN -1 ELSE IF StrLess(b, a) THEN 1 ELSE 0

\* _nat_cmp on the dot-separated parts of two prerelease strings
RECURSIVE NatCmpParts(_, _)
NatCmpParts(a, b) ==
    IF a = <<>> \/ b = <<>>
    THEN (IF Len(a) < Len(b) THEN -1 ELSE IF Len(a) > Len(b) THEN 1 ELSE 0)
    ELSE LET c == CmpPrereleaseTag(a[1], b[1])
         IN  IF c # 0 THEN c ELSE NatCmpParts(Tail(a), Tail(b))

NatCmp(a, b) ==
    NatCmpParts(IF a = <<>> THEN <<>> ELSE SplitOn(a, "."),
                IF b = <<>> THEN <<>> ELSE SplitOn(b, "."))

\* Version.compare: -1, 0 or 1; build metadata takes no part
VersionCompare(v, w) ==
    IF v.major # w.major THEN (IF v.major < w.major THEN -1 ELSE 1)
    ELSE IF v.minor # w.minor THEN (IF v.minor < w.minor THEN -1 ELSE 1)
    ELSE IF v.patch # w.patch THEN (IF v.patch < w.patch THEN -1 ELSE 1)
    ELSE LET rccmp == NatCmp(v.prerelease, w.prerelease)
         IN  IF rccmp = 0 THEN 0
             ELSE IF v.prerelease = <<>> THEN 1
             ELSE IF w.prerelease = <<>> THEN -1
             ELSE rccmp

\* semver.Version.parse and Version.compare on the known tag names, each
\* computed once
ParseTable == [t \in KnownTags |-> VersionParse(t)]
CompareTable ==
    [a \in KnownTags |-> [b \in KnownTags |->
        VersionCompare(ParseTable[a], ParseTable[b])]]

ParsedTag(s) == IF s \in KnownTags THEN ParseTable[s] ELSE VersionParse(s)
ComparedTags(a, b) ==
    IF a \in KnownTags /\ b \in KnownTags THEN CompareTable[a][b]
    ELSE VersionCompare(VersionParse(a), VersionParse(b))

(***************************************************************************)
(* The tags API as get_latest_tag sees it: a repository has `count` tags   *)
(* (names[1], names[2], ... and then `filler` for the tags past            *)
(* Len(names)), served `per_page` at a time; a page past the last one is   *)
(* empty.                                                                  *)
(***************************************************************************)
TagAt(r, k) == IF k <= Len(r.names) THEN r.names[k] ELSE r.filler

Page(r, n) ==
    LET first == (n - 1) * r.per_page + 1
        last  == IF n * r.per_page < r.count THEN n * r.per_page ELSE r.count
    IN  IF first > r.count THEN <<>>
        ELSE [k \in 1..(last - first + 1) |-> TagAt(r, first + k - 1)]

(***************************************************************************)
(* State                                                                   *)
(***************************************************************************)
VARIABLES
    pc,              \* where the script is
    run,             \* number of the current invocation of the script
    repo,            \* the lemmy-ui repository, as the tags API serves it
    prerelease,      \* get_latest_tag's prerelease argument
    i,               \* get_latest_tag's page counter
    tags,            \* get_latest_tag's list of kept tag names
    server_version,  \* __main__'s server_version ("" before it is assigned)
    ui_version,      \* __main__'s ui_version ("" before it is assigned)
    pin,             \* the Pin object (NoPin before it is constructed)
    file,            \* pin.json on disk
    package_json,    \* the saved copy of lemmy-ui's package.json on disk
    error,           \* the uncaught exception that ended the run ("" if none)
    events,          \* the external steps started and pin.json writes completed in this run
    probe_rc,        \* nix-build's exit code
    probe_stderr,    \* nix-build's standard error
    probe_out,       \* what get_fod_hash made of them
    prefetch_in,     \* the "sha256" nix-prefetch-github printed
    prefetch_out,    \* what prefetch_github returned for it
    responses,       \* what the outside world answered to each step of this run
    written          \* the run, and its answers so far, of the last completed write

vars == <<pc, run, repo, prerelease, i, tags, server_version, ui_version, pin,
          file, package_json, error, events, probe_rc, probe_stderr, probe_out,
          prefetch_in, prefetch_out, responses, written>>

(***************************************************************************)
(* get_latest_tag                                                          *)
(***************************************************************************)
PageCap == 100

\* while i <= 100
LoopGuard(n) == n <= PageCap

\* The try/except/else of the filter loop: a name is kept when it parses and
\* is not a prerelease that the caller did not ask for.
KeepTag(name, pre) ==
    LET parsed == ParsedTag(name)
    IN  IF ~parsed.ok THEN FALSE                           \* except ValueError: continue
        ELSE IF ~pre /\ parsed.prerelease # <<>> THEN FALSE \* continue
        ELSE TRUE                                          \* else: tags.append

KeptOf(resp, pre) == SelectSeq(resp, LAMBDA name : KeepTag(name, pre))

\* the order sorted() uses: key=lambda name: semver.Version.parse(name)
KeyLess_Lexical(a, b) == StrLess(a, b)
KeyLess(a, b) == ComparedTags(a, b) < 0

\* sorted(tags, key=...): ascending and stable. Element j of s lands after
\* every element with a smaller key and after the equal-keyed elements that
\* precede it in s.
SortedPos(s, j) ==
    1 + Cardinality({m \in 1..Len(s) :
            KeyLess(s[m], s[j]) \/ (m < j /\ ~KeyLess(s[j], s[m]))})

\* sorted(s, key=...)[k - 1]
SortedAt(s, k) == s[CHOOSE j \in 1..Len(s) : SortedPos(s, j) = k]

\* A failure that is recorded while the script stays at the failed statement
\* The answer of the outside world to a step: ok is FALSE when the request or
\* the process failed and there is no value
Answer(step, ok, value) == [step |-> step, ok |-> ok, value |-> value]

Abort_Retry(kind) ==
    /\ pc' = pc
    /\ error' = kind

Abort(kind) ==
    /\ pc' = "aborted"
    /\ error' = kind

\* __main__ calls get_latest_tag(OWNER, UI_REPO): tags = [], i = 0
TagCall ==
    /\ pc = "get_latest_tag"
    /\ pc' = "tags_loop"
    /\ i' = 0
    /\ tags' = <<>>
    /\ events' = Append(events, "get_latest_tag")
    /\ UNCHANGED <<run, repo, prerelease, server_version, ui_version, pin, file,
                   package_json, error, probe_rc, probe_stderr, probe_out>>
    /\ responses' = Append(responses, Answer("get_latest_tag", TRUE, repo))
    /\ UNCHANGED <<prefetch_in, prefetch_out, written>>

\* the break of the pagination loop
IsLastPage_Never(resp) == FALSE
IsLastPage(resp) == resp = <<>>

\* One iteration of the while loop whose request returns
TagPage ==
    /\ pc = "tags_loop"
    /\ LoopGuard(i)
    /\ i' = i + 1
    /\ LET resp == Page(repo, i + 1)
       IN  IF IsLastPage(resp)
           THEN pc' = "tags_return" /\ tags' = tags
           ELSE pc' = "tags_loop" /\ tags' = tags \o KeptOf(resp, prerelease)
    /\ UNCHANGED <<run, repo, prerelease, server_version, ui_version, pin, file,
                   package_json, error, events, probe_rc, probe_stderr, probe_out>>
    /\ UNCHANGED <<prefetch_in, prefetch_out, responses, written>>

\* One iteration of the while loop whose request raises (urlopen or json.loads)
TagPageFails ==
    /\ pc = "tags_loop"
    /\ LoopGuard(i)
    /\ i' = i + 1
    /\ Abort("URLError")
    /\ UNCHANGED <<run, repo, prerelease, tags, server_version, ui_version, pin,
                   file, package_json, events, probe_rc, probe_stderr, probe_out>>
    /\ responses' = [responses EXCEPT ![Len(responses)].ok = FALSE]
    /\ UNCHANGED <<prefetch_in, prefetch_out, written>>

\* The while condition is false
TagLoopEnd ==
    /\ pc = "tags_loop"
    /\ ~LoopGuard(i)
    /\ pc' = "tags_return"
    /\ UNCHANGED <<run, repo, prerelease, i, tags, server_version, ui_version, pin,
                   file, package_json, error, events, probe_rc, probe_stderr, probe_out>>
    /\ UNCHANGED <<prefetch_in, prefetch_out, responses, written>>

\* A return that yields "" for the empty list instead of raising
TagReturn_Default ==
    /\ pc = "tags_return"
    /\ ui_version' = IF tags = <<>> THEN <<>> ELSE SortedAt(tags, Len(tags))
    /\ pc' = "construct"
    /\ UNCHANGED <<run, repo, prerelease, i, tags, server_version, pin, file,
                   package_json, error, events, probe_rc, probe_stderr, probe_out>>
    /\ UNCHANGED <<prefetch_in, prefetch_out, responses, written>>

\* return sorted(tags, key=...)[-1]; IndexError on the empty list
TagReturn ==
    /\ pc = "tags_return"
    /\ IF tags = <<>>
       THEN Abort("IndexError") /\ ui_version' = ui_version
       ELSE /\ ui_version' = SortedAt(tags, Len(tags))
            /\ pc' = "construct"
            /\ error' = error
    /\ UNCHANGED <<run, repo, prerelease, i, tags, server_version, pin, file,
                   package_json, events, probe_rc, probe_stderr, probe_out>>
    /\ UNCHANGED <<prefetch_in, prefetch_out, responses, written>>

(***************************************************************************)
(* Pin and Pin.write                                                       *)
(***************************************************************************)
\* Pin(server_version, ui_version, filename=...): the checksums default to ""
NewPin(sv, uv, fn) ==
    [serverVersion |-> sv, uiVersion |-> uv, serverSha256 |-> <<>>,
     serverCargoSha256 |-> <<>>, uiSha256 |-> <<>>, uiYarnDepsSha256 |-> <<>>,
     filename |-> fn]

\* dataclasses.asdict(self): the fields in declaration order
AsDict(p) ==
    << <<"serverVersion", p.serverVersion>>, <<"uiVersion", p.uiVersion>>,
       <<"serverSha256", p.serverSha256>>,
       <<"serverCargoSha256", p.serverCargoSha256>>,
       <<"uiSha256", p.uiSha256>>, <<"uiYarnDepsSha256", p.uiYarnDepsSha256>>,
       <<"filename", p.filename>> >>

\* del d[key]
DelKey(d, key) == SelectSeq(d, LAMBDA kv : kv[1] # key)

\* A dump of every field of the dataclass
Dumped_WithFilename(p) == [exists |-> TRUE, doc |-> AsDict(p)]

\* What json.dump(pin, fd, indent=2) followed by "\n" leaves in the file: the
\* JSON object of the remaining keys, in order
Dumped(p) == [exists |-> TRUE, doc |-> DelKey(AsDict(p), "filename")]

\* open(filename, "w") truncated the file and nothing was written after it
Truncated == [exists |-> TRUE, doc |-> <<>>]

(***************************************************************************)
(* prefetch_github: the normalisation of nix-prefetch-github's sha256      *)
(***************************************************************************)
Sha256Prefix == <<"s", "h", "a", "2", "5", "6", "-">>

\* s.startswith(prefix)
StartsWith(s, prefix) ==
    Len(s) >= Len(prefix) /\ SubSeq(s, 1, Len(prefix)) = prefix

\* A normalisation that prepends the prefix without looking
prefetch_github_Always(sha256) == Sha256Prefix \o sha256

prefetch_github(sha256) ==
    IF ~StartsWith(sha256, Sha256Prefix) THEN Sha256Prefix \o sha256 ELSE sha256

(***************************************************************************)
(* get_fod_hash. nix-build's standard error is a tuple of pieces of text:  *)
(* "\n", a blank " ", or a run of non-blank characters such as "got:".     *)
(* Adjacent non-blank pieces belong to the same word.                      *)
(***************************************************************************)
\* line.split(): the words of a line, each the tuple of its pieces
RECURSIVE Words(_)
Words(line) ==
    IF line = <<>> THEN <<>>
    ELSE IF line[1] = " " THEN Words(Tail(line))
    ELSE LET k == IndexOf(line, " ")
         IN  IF k = 0 THEN <<line>>
             ELSE <<SubSeq(line, 1, k - 1)>> \o Words(SubSeq(line, k, Len(line)))

GotMarker == <<"got:">>

\* the for loop over lines[::-1], from line k down to the first line
RECURSIVE ScanBack(_, _)
ScanBack(lines, k) ==
    IF k = 0
    THEN [ok |-> FALSE, value |-> <<>>, error |-> "ValueError: No fixed output hash found"]
    ELSE LET cols == Words(lines[k])
         IN  IF cols # <<>> /\ cols[1] = GotMarker
             THEN IF Len(cols) >= 2
                  THEN [ok |-> TRUE, value |-> cols[2], error |-> ""]
                  ELSE [ok |-> FALSE, value |-> <<>>, error |-> "IndexError"]
             ELSE ScanBack(lines, k - 1)

\* the exit code nix-build must end with
ExpectedReturnCode == 1

\* A probe that reads the standard error whatever the exit code
get_fod_hash_AnyExit(returncode, stderr) ==
    LET lines == SplitOn(stderr, "\n")
    IN  ScanBack(lines, Len(lines))

get_fod_hash(returncode, stderr) ==
    IF returncode # ExpectedReturnCode
    THEN [ok |-> FALSE, value |-> <<>>, error |-> "ValueError: Expected nix-build to fail"]
    ELSE LET lines == SplitOn(stderr, "\n")
         IN  ScanBack(lines, Len(lines))

(***************************************************************************)
(* Values                                                                  *)
(***************************************************************************)
NoPin == [constructed |-> FALSE]
NothingWritten == [run |-> 0, responses |-> <<>>]
Absent == [exists |-> FALSE, doc |-> <<>>]

\* The tag names the bounded repositories are built from
TagUniverse ==
    {Tag_1_0_5, Tag_1_0_10, Tag_1_0_10_rc2, Tag_1_0_10_rc10, Tag_v1_1_0, Tag_garbage}

MaxTags == 3

\* Every repository of at most MaxTags tags, under every page size, and
\* repositories that fill about PageCap pages of one tag each
SmallRepos ==
    {[names |-> ns, count |-> Len(ns), per_page |-> pp, filler |-> Tag_garbage] :
        ns \in UNION {[1..n -> TagUniverse] : n \in 0..MaxTags}, pp \in 1..MaxTags}
BigRepos ==
    {[names |-> ns, count |-> c, per_page |-> 1, filler |-> f] :
        ns \in UNION {[1..n -> TagUniverse] : n \in 0..1},
        c \in (PageCap - 1)..(PageCap + 2),
        f \in {Tag_garbage, Tag_v1_1_0}}

MaxRuns == 2

\* What the releases API names as the latest lemmy release
ReleaseTags == {Tag_1_0_0, Tag_1_0_5}

\* The lemmy-ui repository as a run may find it
ScenarioRepo ==
    [names |-> <<Tag_v1_0_0, Tag_v1_1_0_rc1, Tag_v1_0_5, Tag_garbage>>,
     count |-> 4, per_page |-> 30, filler |-> Tag_garbage]
PlainRepo ==
    [names |-> <<Tag_1_0_0, Tag_1_1_0_rc1, Tag_1_0_5, Tag_garbage>>,
     count |-> 4, per_page |-> 3, filler |-> Tag_garbage]
NewerRepo ==
    [names |-> <<Tag_1_0_10, Tag_1_0_5>>, count |-> 2, per_page |-> 1,
     filler |-> Tag_garbage]
EmptyRepo == [names |-> <<>>, count |-> 0, per_page |-> 30, filler |-> Tag_garbage]
HugeRepo ==
    [names |-> <<Tag_1_0_5>>, count |-> PageCap + 2, per_page |-> 1,
     filler |-> Tag_garbage]
Repos == {ScenarioRepo, PlainRepo, NewerRepo, EmptyRepo, HugeRepo}

\* The sha256 nix-prefetch-github reports, with and without the prefix
RawShas == {<<"A">>, Sha256Prefix \o <<"B">>}

\* How a nix-build run may end: exit code and standard error
ProbeRuns ==
    {[rc |-> 1, stderr |-> <<"error:", "\n", " ", "got:", " ", "h1", "\n">>],
     [rc |-> 1, stderr |-> <<"got:", " ", "h1", "\n", "got:", " ", "h2">>],
     [rc |-> 1, stderr |-> <<"error:", " ", "h1">>],
     [rc |-> 1, stderr |-> <<"got:", " ", "h1", "\n", "got:">>],
     [rc |-> 0, stderr |-> <<"got:", " ", "h1">>],
     [rc |-> 2, stderr |-> <<"got:", " ", "h1">>],
     [rc |-> 127, stderr |-> <<>>],
     [rc |-> -9, stderr |-> <<"got:">>]}

\* What raw.githubusercontent.com serves as package.json
Manifests == {<<"m1">>, <<"m2">>}

PinFilename == "pin.json"

(***************************************************************************)
(* __main__, make_server_pin and make_ui_pin                               *)
(***************************************************************************)
\* server_version = get_latest_release(OWNER, SERVER_REPO)
LatestRelease ==
    /\ pc = "get_latest_release"
    /\ events' = Append(events, "get_latest_release")
    /\ \/ \E v \in ReleaseTags :
            /\ server_version' = v
            /\ pc' = "get_latest_tag"
            /\ error' = error
            /\ responses' = Append(responses, Answer("get_latest_release", TRUE, v))
       \/ /\ Abort("HTTPError") /\ server_version' = server_version
          /\ responses' = Append(responses, Answer("get_latest_release", FALSE, <<>>))
    /\ UNCHANGED <<run, repo, prerelease, i, tags, ui_version, pin, file,
                   package_json, probe_rc, probe_stderr, probe_out>>
    /\ UNCHANGED <<prefetch_in, prefetch_out, written>>

\* A construction that also writes the fresh record at once
ConstructPin_Persist ==
    /\ pc = "construct"
    /\ pin' = NewPin(server_version, ui_version, PinFilename)
    /\ file' = Dumped(pin')
    /\ events' = Append(events, "write")
    /\ pc' = "server_prefetch"
    /\ UNCHANGED <<run, repo, prerelease, i, tags, server_version, ui_version,
                   package_json, error, probe_rc, probe_stderr, probe_out>>
    /\ written' = [run |-> run, responses |-> responses]
    /\ UNCHANGED <<prefetch_in, prefetch_out, responses>>

\* A construction that takes over the checksums of the record on disk
ConstructPin_FromFile ==
    /\ pc = "construct"
    /\ pin' = IF Len(file.doc) = 6
              THEN [NewPin(server_version, ui_version, PinFilename) EXCEPT
                        !.serverSha256 = file.doc[3][2],
                        !.serverCargoSha256 = file.doc[4][2],
                        !.uiSha256 = file.doc[5][2],
                        !.uiYarnDepsSha256 = file.doc[6][2]]
              ELSE NewPin(server_version, ui_version, PinFilename)
    /\ pc' = "server_prefetch"
    /\ UNCHANGED <<run, repo, prerelease, i, tags, server_version, ui_version, file,
                   package_json, error, events, probe_rc, probe_stderr, probe_out>>
    /\ UNCHANGED <<prefetch_in, prefetch_out, responses, written>>

\* pin = Pin(server_version, ui_version, filename=...); make_server_pin is entered
ConstructPin ==
    /\ pc = "construct"
    /\ pin' = NewPin(server_version, ui_version, PinFilename)
    /\ pc' = "server_prefetch"
    /\ UNCHANGED <<run, repo, prerelease, i, tags, server_version, ui_version, file,
                   package_json, error, events, probe_rc, probe_stderr, probe_out>>
    /\ UNCHANGED <<prefetch_in, prefetch_out, responses, written>>

\* make_ui_pin without the download of package.json
AfterWrite_SkipManifest(at) ==
    CASE at = "server_write_1" -> "server_probe"
      [] at = "server_write_2" -> "ui_prefetch"
      [] at = "ui_write_1" -> "ui_probe"
      [] at = "ui_write_2" -> "done"
      [] at = "write_1" -> "write_2"
      [] at = "write_2" -> "write_done"

\* The statement that follows each of the four pin.write() calls
AfterWrite(at) ==
    CASE at = "server_write_1" -> "server_probe"
      [] at = "server_write_2" -> "package_json"
      [] at = "ui_write_1" -> "ui_probe"
      [] at = "ui_write_2" -> "done"
      [] at = "write_1" -> "write_2"
      [] at = "write_2" -> "write_done"

\* The four pin.write() calls of the script, and the two of a caller that
\* writes one Pin twice in a row
WritePcs ==
    {"server_write_1", "server_write_2", "ui_write_1", "ui_write_2",
     "write_1", "write_2"}

\* A write that opens nothing and dumps nothing
PinWrite_NoDump ==
    /\ pc \in WritePcs
    /\ pc' = AfterWrite(pc)
    /\ events' = Append(events, "write")
    /\ UNCHANGED <<run, repo, prerelease, i, tags, server_version, ui_version, pin,
                   file, package_json, error, probe_rc, probe_stderr, probe_out>>
    /\ UNCHANGED <<prefetch_in, prefetch_out, responses, written>>

\* A write that updates the record on disk, keeping the fields the Pin has
\* not filled yet
PinWrite_Merge ==
    /\ pc \in WritePcs
    /\ file' = [exists |-> TRUE,
                doc |-> [k \in 1..Len(Dumped(pin).doc) |->
                            IF Dumped(pin).doc[k][2] = <<>> /\ Len(file.doc) >= k
                            THEN file.doc[k] ELSE Dumped(pin).doc[k]]]
    /\ written' = [run |-> run, responses |-> responses]
    /\ events' = Append(events, "write")
    /\ pc' = AfterWrite(pc)
    /\ UNCHANGED <<run, repo, prerelease, i, tags, server_version, ui_version, pin,
                   package_json, error, probe_rc, probe_stderr, probe_out>>
    /\ UNCHANGED <<prefetch_in, prefetch_out, responses>>

\* A write that opens the file for appending
PinWrite_Append ==
    /\ pc \in WritePcs
    /\ file' = [exists |-> TRUE, doc |-> file.doc \o Dumped(pin).doc]
    /\ written' = [run |-> run, responses |-> responses]
    /\ events' = Append(events, "write")
    /\ pc' = AfterWrite(pc)
    /\ UNCHANGED <<run, repo, prerelease, i, tags, server_version, ui_version, pin,
                   package_json, error, probe_rc, probe_stderr, probe_out>>
    /\ UNCHANGED <<prefetch_in, prefetch_out, responses>>

\* pin.write()
PinWrite ==
    /\ pc \in WritePcs
    /\ IF pin.filename = ""
       THEN Abort("ValueError: No filename set") /\ UNCHANGED <<file, events, written>>
       ELSE /\ file' = Dumped(pin)
            /\ written' = [run |-> run, responses |-> responses]
            /\ events' = Append(events, "write")
            /\ pc' = AfterWrite(pc)
            /\ error' = error
    /\ UNCHANGED <<run, repo, prerelease, i, tags, server_version, ui_version, pin,
                   package_json, probe_rc, probe_stderr, probe_out>>
    /\ UNCHANGED <<prefetch_in, prefetch_out, responses>>

\* pin.write() raising OSError: open() failed, or the dump failed after open()
\* had truncated the file
PinWriteFails ==
    /\ pc \in WritePcs
    /\ pin.filename # ""
    /\ file' \in {file, Truncated}
    /\ Abort("OSError")
    /\ UNCHANGED <<run, repo, prerelease, i, tags, server_version, ui_version, pin,
                   package_json, events, probe_rc, probe_stderr, probe_out>>
    /\ UNCHANGED <<prefetch_in, prefetch_out, responses, written>>

\* pin.serverSha256 = prefetch_github(OWNER, SERVER_REPO, pin.serverVersion)
PrefetchServer ==
    /\ pc = "server_prefetch"
    /\ events' = Append(events, "prefetch_server")
    /\ \/ \E raw \in RawShas :
            /\ pin' = [pin EXCEPT !.serverSha256 = prefetch_github(raw)]
            /\ pc' = "server_write_1"
            /\ error' = error
            /\ responses' = Append(responses, Answer("prefetch_server", TRUE, raw))
       \/ /\ Abort("CalledProcessError") /\ pin' = pin
          /\ responses' = Append(responses, Answer("prefetch_server", FALSE, <<>>))
    /\ UNCHANGED <<run, repo, prerelease, i, tags, server_version, ui_version, file,
                   package_json, probe_rc, probe_stderr, probe_out>>
    /\ UNCHANGED <<prefetch_in, prefetch_out, written>>

\* pin.serverCargoSha256 = get_fod_hash(attr)
ProbeServer ==
    /\ pc = "server_probe"
    /\ events' = Append(events, "probe_server")
    /\ \E r \in ProbeRuns :
        LET out == get_fod_hash(r.rc, r.stderr)
        IN  /\ probe_rc' = r.rc
            /\ probe_stderr' = r.stderr
            /\ probe_out' = out
            /\ responses' = Append(responses, Answer("probe_server", TRUE, r))
            /\ IF out.ok
               THEN /\ pin' = [pin EXCEPT !.serverCargoSha256 = out.value]
                    /\ pc' = "server_write_2"
                    /\ error' = error
               ELSE Abort(out.error) /\ pin' = pin
    /\ UNCHANGED <<run, repo, prerelease, i, tags, server_version, ui_version, file,
                   package_json>>
    /\ UNCHANGED <<prefetch_in, prefetch_out, written>>

\* A download of package.json that is not copied to disk
SavePackageJson_NoCopy ==
    /\ pc = "package_json"
    /\ events' = Append(events, "package_json")
    /\ \E m \in Manifests :
            responses' = Append(responses, Answer("package_json", TRUE, m))
    /\ pc' = "ui_prefetch"
    /\ UNCHANGED <<run, repo, prerelease, i, tags, server_version, ui_version, pin,
                   file, package_json, error, probe_rc, probe_stderr, probe_out>>
    /\ UNCHANGED <<prefetch_in, prefetch_out, written>>

\* The download of package.json and its copy to disk
SavePackageJson ==
    /\ pc = "package_json"
    /\ events' = Append(events, "package_json")
    /\ \/ \E m \in Manifests :
            /\ package_json' = [exists |-> TRUE, doc |-> m]
            /\ pc' = "ui_prefetch"
            /\ error' = error
            /\ responses' = Append(responses, Answer("package_json", TRUE, m))
       \/ /\ Abort("URLError")
          /\ package_json' \in {package_json, Truncated}  \* urlopen or resp.read() raised
          /\ responses' = Append(responses, Answer("package_json", FALSE, <<>>))
    /\ UNCHANGED <<run, repo, prerelease, i, tags, server_version, ui_version, pin,
                   file, probe_rc, probe_stderr, probe_out>>
    /\ UNCHANGED <<prefetch_in, prefetch_out, written>>

\* A UI prefetch that stores the sha256 as nix-prefetch-github printed it
PrefetchUi_Raw ==
    /\ pc = "ui_prefetch"
    /\ events' = Append(events, "prefetch_ui")
    /\ \/ \E raw \in RawShas :
            /\ pin' = [pin EXCEPT !.uiSha256 = raw]
            /\ pc' = "ui_write_1"
            /\ error' = error
            /\ responses' = Append(responses, Answer("prefetch_ui", TRUE, raw))
       \/ /\ Abort("CalledProcessError") /\ pin' = pin
          /\ responses' = Append(responses, Answer("prefetch_ui", FALSE, <<>>))
    /\ UNCHANGED <<run, repo, prerelease, i, tags, server_version, ui_version, file,
                   package_json, probe_rc, probe_stderr, probe_out>>
    /\ UNCHANGED <<prefetch_in, prefetch_out, written>>

\* pin.uiSha256 = prefetch_github(OWNER, UI_REPO, pin.uiVersion)
PrefetchUi ==
    /\ pc = "ui_prefetch"
    /\ events' = Append(events, "prefetch_ui")
    /\ \/ \E raw \in RawShas :
            /\ pin' = [pin EXCEPT !.uiSha256 = prefetch_github(raw)]
            /\ pc' = "ui_write_1"
            /\ error' = error
            /\ responses' = Append(responses, Answer("prefetch_ui", TRUE, raw))
       \/ /\ Abort("CalledProcessError") /\ pin' = pin
          /\ responses' = Append(responses, Answer("prefetch_ui", FALSE, <<>>))
    /\ UNCHANGED <<run, repo, prerelease, i, tags, server_version, ui_version, file,
                   package_json, probe_rc, probe_stderr, probe_out>>
    /\ UNCHANGED <<prefetch_in, prefetch_out, written>>

\* A UI probe that stores its hash in the server's field
ProbeUi_WrongField ==
    /\ pc = "ui_probe"
    /\ events' = Append(events, "probe_ui")
    /\ \E r \in ProbeRuns :
        LET out == get_fod_hash(r.rc, r.stderr)
        IN  /\ probe_rc' = r.rc
            /\ probe_stderr' = r.stderr
            /\ probe_out' = out
            /\ responses' = Append(responses, Answer("probe_ui", TRUE, r))
            /\ IF out.ok
               THEN /\ pin' = [pin EXCEPT !.serverCargoSha256 = out.value]
                    /\ pc' = "ui_write_2"
                    /\ error' = error
               ELSE Abort(out.error) /\ pin' = pin
    /\ UNCHANGED <<run, repo, prerelease, i, tags, server_version, ui_version, file,
                   package_json>>
    /\ UNCHANGED <<prefetch_in, prefetch_out, written>>

\* pin.uiYarnDepsSha256 = get_fod_hash(attr)
ProbeUi ==
    /\ pc = "ui_probe"
    /\ events' = Append(events, "probe_ui")
    /\ \E r \in ProbeRuns :
        LET out == get_fod_hash(r.rc, r.stderr)
        IN  /\ probe_rc' = r.rc
            /\ probe_stderr' = r.stderr
            /\ probe_out' = out
            /\ responses' = Append(responses, Answer("probe_ui", TRUE, r))
            /\ IF out.ok
               THEN /\ pin' = [pin EXCEPT !.uiYarnDepsSha256 = out.value]
                    /\ pc' = "ui_write_2"
                    /\ error' = error
               ELSE Abort(out.error) /\ pin' = pin
    /\ UNCHANGED <<run, repo, prerelease, i, tags, server_version, ui_version, file,
                   package_json>>
    /\ UNCHANGED <<prefetch_in, prefetch_out, written>>

\* The script is started again; only the files on disk survive
NewRun ==
    /\ pc \in {"done", "aborted"}
    /\ run < MaxRuns
    /\ run' = run + 1
    /\ pc' = "get_latest_release"
    /\ repo' \in Repos
    /\ i' = 0
    /\ tags' = <<>>
    /\ server_version' = <<>>
    /\ ui_version' = <<>>
    /\ pin' = NoPin
    /\ error' = ""
    /\ events' = <<>>
    /\ probe_rc' = 1
    /\ probe_stderr' = <<>>
    /\ probe_out' = [ok |-> FALSE, value |-> <<>>, error |-> ""]
    /\ UNCHANGED <<prerelease, file, package_json>>
    /\ responses' = <<>>
    /\ UNCHANGED <<prefetch_in, prefetch_out, written>>

Init ==
    /\ pc = "get_latest_release"
    /\ run = 1
    /\ repo \in Repos
    /\ prerelease = FALSE
    /\ i = 0
    /\ tags = <<>>
    /\ server_version = <<>>
    /\ ui_version = <<>>
    /\ pin = NoPin
    /\ file = Absent
    /\ package_json = Absent
    /\ error = ""
    /\ events = <<>>
    /\ probe_rc = 1
    /\ probe_stderr = <<>>
    /\ probe_out = [ok |-> FALSE, value |-> <<>>, error |-> ""]
    /\ prefetch_in = <<>>
    /\ prefetch_out = <<>>
    /\ responses = <<>>
    /\ written = NothingWritten

Next ==
    \/ LatestRelease
    \/ TagCall
    \/ TagPage
    \/ TagPageFails
    \/ TagLoopEnd
    \/ TagReturn
    \/ ConstructPin
    \/ PrefetchServer
    \/ ProbeServer
    \/ SavePackageJson
    \/ PrefetchUi
    \/ ProbeUi
    \/ PinWrite
    \/ PinWriteFails
    \/ NewRun

Spec == Init /\ [][Next]_vars

(***************************************************************************)
(* get_latest_tag on its own, for every bounded repository                 *)
(***************************************************************************)
InitTag ==
    /\ pc = "get_latest_tag"
    /\ run = 1
    /\ repo \in SmallRepos \cup BigRepos
    /\ prerelease \in BOOLEAN
    /\ i = 0
    /\ tags = <<>>
    /\ server_version = <<>>
    /\ ui_version = <<>>
    /\ pin = NoPin
    /\ file = Absent
    /\ package_json = Absent
    /\ error = ""
    /\ events = <<>>
    /\ probe_rc = 1
    /\ probe_stderr = <<>>
    /\ probe_out = [ok |-> FALSE, value |-> <<>>, error |-> ""]
    /\ prefetch_in = <<>>
    /\ prefetch_out = <<>>
    /\ responses = <<>>
    /\ written = NothingWritten

NextTag == TagCall \/ TagPage \/ TagPageFails \/ TagLoopEnd \/ TagReturn

SpecTag == InitTag /\ [][NextTag]_vars

\* Each request returns or raises, and the interpreter keeps running the call
FairSpecTag == SpecTag /\ WF_vars(NextTag)

(***************************************************************************)
(* get_fod_hash on its own, for every bounded nix-build outcome            *)
(***************************************************************************)
MaxTextLen == 7

Pieces == {"\n", " ", "got:", "h1", "h2"}
ExitCodes == {-9, 0, 1, 2}
Texts == UNION {[1..n -> Pieces] : n \in 0..MaxTextLen}

InitProbe ==
    /\ pc = "get_fod_hash"
    /\ run = 1
    /\ repo = EmptyRepo
    /\ prerelease = FALSE
    /\ i = 0
    /\ tags = <<>>
    /\ server_version = <<>>
    /\ ui_version = <<>>
    /\ pin = NoPin
    /\ file = Absent
    /\ package_json = Absent
    /\ error = ""
    /\ events = <<>>
    /\ probe_rc \in ExitCodes
    /\ probe_stderr \in Texts
    /\ probe_out = [ok |-> FALSE, value |-> <<>>, error |-> ""]
    /\ prefetch_in = <<>>
    /\ prefetch_out = <<>>
    /\ responses = <<>>
    /\ written = NothingWritten

\* get_fod_hash(attr) runs nix-build and returns or raises
RunProbe ==
    /\ pc = "get_fod_hash"
    /\ probe_out' = get_fod_hash(probe_rc, probe_stderr)
    /\ pc' = "get_fod_hash_done"
    /\ UNCHANGED <<run, repo, prerelease, i, tags, server_version, ui_version, pin,
                   file, package_json, error, events, probe_rc, probe_stderr>>
    /\ UNCHANGED <<prefetch_in, prefetch_out, responses, written>>

NextProbe == RunProbe

SpecProbe == InitProbe /\ [][NextProbe]_vars

(***************************************************************************)
(* prefetch_github's normalisation on its own, for every bounded sha256    *)
(* that nix-prefetch-github may print                                      *)
(***************************************************************************)
MaxShaLen == 3

ShaChars == {"s", "-", "A"}
ShaHeads ==
    {<<>>, Sha256Prefix, Sha256Prefix \o Sha256Prefix,
     <<"s", "h", "a", "2", "5", "6">>, <<"S", "H", "A", "2", "5", "6", "-">>,
     <<"h", "a", "2", "5", "6", "-">>}
RawShaInputs ==
    {h \o t : h \in ShaHeads, t \in UNION {[1..n -> ShaChars] : n \in 0..MaxShaLen}}

InitPrefetch ==
    /\ pc = "prefetch_github"
    /\ run = 1
    /\ repo = EmptyRepo
    /\ prerelease = FALSE
    /\ i = 0
    /\ tags = <<>>
    /\ server_version = <<>>
    /\ ui_version = <<>>
    /\ pin = NoPin
    /\ file = Absent
    /\ package_json = Absent
    /\ error = ""
    /\ events = <<>>
    /\ probe_rc = 1
    /\ probe_stderr = <<>>
    /\ probe_out = [ok |-> FALSE, value |-> <<>>, error |-> ""]
    /\ prefetch_in \in RawShaInputs
    /\ prefetch_out = <<>>
    /\ responses = <<>>
    /\ written = NothingWritten

\* prefetch_github(owner, repo, rev) from the parsed output on
RunPrefetch ==
    /\ pc = "prefetch_github"
    /\ prefetch_out' = prefetch_github(prefetch_in)
    /\ pc' = "prefetch_github_done"
    /\ UNCHANGED <<run, repo, prerelease, i, tags, server_version, ui_version, pin,
                   file, package_json, error, events, probe_rc, probe_stderr,
                   probe_out, prefetch_in, responses, written>>

NextPrefetch == RunPrefetch

SpecPrefetch == InitPrefetch /\ [][NextPrefetch]_vars

(***************************************************************************)
(* Pin.write on its own: any Pin, over any earlier pin.json, written twice *)
(* in a row                                                                *)
(***************************************************************************)
Checksums == {<<>>, <<"h1">>}
Filenames == {PinFilename, ""}

WritePins ==
    {[serverVersion |-> sv, uiVersion |-> uv, serverSha256 |-> a,
      serverCargoSha256 |-> b, uiSha256 |-> c, uiYarnDepsSha256 |-> d,
      filename |-> fn] :
        sv \in ReleaseTags, uv \in {Tag_1_0_5, Tag_1_0_10},
        a \in Checksums, b \in Checksums, c \in Checksums, d \in Checksums,
        fn \in Filenames}

FilesBefore == {Absent, Truncated} \cup {Dumped(p) : p \in WritePins}

InitWrite ==
    /\ pc = "write_1"
    /\ run = 1
    /\ repo = EmptyRepo
    /\ prerelease = FALSE
    /\ i = 0
    /\ tags = <<>>
    /\ server_version = <<>>
    /\ ui_version = <<>>
    /\ pin \in WritePins
    /\ file \in FilesBefore
    /\ package_json = Absent
    /\ error = ""
    /\ events = <<>>
    /\ probe_rc = 1
    /\ probe_stderr = <<>>
    /\ probe_out = [ok |-> FALSE, value |-> <<>>, error |-> ""]
    /\ prefetch_in = <<>>
    /\ prefetch_out = <<>>
    /\ responses = <<>>
    /\ written = NothingWritten

NextWrite == PinWrite \/ PinWriteFails

SpecWrite == InitWrite /\ [][NextWrite]_vars

(***************************************************************************)
(* Vocabulary of the properties                                            *)
(***************************************************************************)
ChecksumFields == {"serverSha256", "serverCargoSha256", "uiSha256", "uiYarnDepsSha256"}

\* The external steps, in the order of the script
StepOrder ==
    <<"get_latest_release", "get_latest_tag", "prefetch_server", "probe_server",
      "package_json", "prefetch_ui", "probe_ui">>

StepsOf(ev) == SelectSeq(ev, LAMBDA e : e # "write")
WritesOf(ev) == Len(SelectSeq(ev, LAMBDA e : e = "write"))
IsPrefix(a, b) == Len(a) <= Len(b) /\ SubSeq(b, 1, Len(a)) = a

\* The exceptions of Pin.write itself; every other one is a failed external step
WriteErrors == {"OSError", "ValueError: No filename set"}
StepFailed == pc = "aborted" /\ error \notin WriteErrors

\* pin.json holds value v under key f
FileHas(f, v) == \E k \in 1..Len(file.doc) : file.doc[k] = <<f, v>>

\* The states before the first pin.write() of a run has been reached
BeforeFirstWrite ==
    {"get_latest_release", "get_latest_tag", "tags_loop", "tags_return",
     "construct", "server_prefetch"}

(***************************************************************************)
(* C1 (as stated): once both versions are resolved and the Pin is          *)
(* constructed, pin.json holds the two versions and four empty checksums   *)
(* before the server prefetch starts.                                      *)
(***************************************************************************)
C1_PersistedBeforePrefetch ==
    pc = "server_prefetch" =>
        file = Dumped(NewPin(server_version, ui_version, PinFilename))

(***************************************************************************)
(* C1 (amended): nothing is written to pin.json before the server prefetch *)
(* has completed, so a run that fails in or before that prefetch leaves    *)
(* the file as it was; the first write of a run follows the prefetch and   *)
(* holds the two versions, serverSha256 and three empty checksums.         *)
(***************************************************************************)
C1_FirstWriteFollowsPrefetch ==
    [][ /\ (pc \in BeforeFirstWrite /\ run' = run) => file' = file
        /\ (pc = "server_write_1" /\ pc' = "server_probe") =>
              /\ WritesOf(events) = 0
              /\ pin.serverSha256 # <<>>
              /\ file'.doc = << <<"serverVersion", server_version>>,
                                <<"uiVersion", ui_version>>,
                                <<"serverSha256", pin.serverSha256>>,
                                <<"serverCargoSha256", <<>> >>,
                                <<"uiSha256", <<>> >>,
                                <<"uiYarnDepsSha256", <<>> >> >> ]_vars

C1_Witness ==
    /\ pc = "aborted"
    /\ events = <<"get_latest_release", "get_latest_tag", "prefetch_server">>
    /\ run = 2
    /\ file.exists
    /\ ~FileHas("serverVersion", server_version)

(***************************************************************************)
(* C2: within a run a checksum field is assigned at most once (it changes  *)
(* only from "" and then keeps its value), every assignment is written to  *)
(* pin.json before the next external step starts, and wherever a failed    *)
(* step aborts the run the file holds every checksum acquired so far.      *)
(***************************************************************************)
AcquiredAreOnDisk ==
    \A f \in ChecksumFields : pin[f] # <<>> => FileHas(f, pin[f])

StepPcs == {"server_prefetch", "server_probe", "package_json", "ui_prefetch", "ui_probe"}

C2_AssignedOnceAndPersisted ==
    /\ [](pc \in StepPcs \cup {"done"} => AcquiredAreOnDisk)
    /\ [](pc \in (StepPcs \ {"server_prefetch"}) \cup {"done"} => file = Dumped(pin))
    /\ [](StepFailed /\ pin # NoPin => AcquiredAreOnDisk)
    /\ [][(pin # NoPin /\ pin' # NoPin) =>
            \A f \in ChecksumFields :
                pin'[f] # pin[f] => pin[f] = <<>> /\ pin'[f] # <<>>]_vars

C2_Witness ==
    /\ StepFailed
    /\ events[Len(events)] = "probe_ui"
    /\ pin.serverSha256 # <<>> /\ pin.serverCargoSha256 # <<>> /\ pin.uiSha256 # <<>>
    /\ pin.uiYarnDepsSha256 = <<>>
    /\ AcquiredAreOnDisk

(***************************************************************************)
(* C3: the external steps of a run start in the fixed order release        *)
(* lookup, tag lookup, server prefetch, server probe, package.json         *)
(* download, UI prefetch, UI probe, none skipped, repeated or reordered,   *)
(* and a step starts only while no step of the run has failed.             *)
(***************************************************************************)
C3_FixedStepOrder ==
    /\ [](IsPrefix(StepsOf(events), StepOrder))
    /\ [](pc = "done" => StepsOf(events) = StepOrder)
    /\ [][(run' = run /\ StepsOf(events') # StepsOf(events)) =>
            error = "" /\ pc # "aborted"]_vars

C3_Witness == pc = "done" /\ StepsOf(events) = StepOrder /\ error = ""

(***************************************************************************)
(* C4: a failed step ends the run: the failure leaves the Pin and pin.json *)
(* as they were, and afterwards no step starts, none is retried and the    *)
(* file is not written again.                                              *)
(***************************************************************************)
C4_FailureAborts ==
    /\ [](error # "" => pc = "aborted")
    /\ [][(error = "" /\ error' \notin WriteErrors \cup {""}) =>
            pc' = "aborted" /\ pin' = pin /\ file' = file]_vars
    /\ [][(pc = "aborted" /\ run' = run) =>
            UNCHANGED <<pc, events, pin, file, package_json, error>>]_vars

C4_Witness ==
    /\ pc = "aborted"
    /\ error = "ValueError: No fixed output hash found"
    /\ events[Len(events)] = "probe_server"
    /\ pin.serverCargoSha256 = <<>>
    /\ file = Dumped(pin)

(***************************************************************************)
(* Vocabulary of the properties of get_latest_tag                          *)
(***************************************************************************)
\* The tag names the API has returned on the pages requested so far
ReturnedTags ==
    UNION {{Page(repo, n)[k] : k \in 1..Len(Page(repo, n))} : n \in 1..i}

\* A tag that parses as a semantic version and is no unrequested prerelease
Eligible(t, pre) ==
    /\ StrictParse(t).ok
    /\ pre \/ StrictParse(t).prerelease = <<>>

\* Semantic-version precedence: a is not above b
NotAbove(a, b) == VersionCompare(StrictParse(a), StrictParse(b)) <= 0

TagLookupReturned == pc = "construct"

(***************************************************************************)
(* C5: the tag get_latest_tag returns is one of the returned tags, parses  *)
(* as a semantic version, is eligible (not a prerelease unless prereleases *)
(* were requested) and no eligible returned tag is above it.               *)
(***************************************************************************)
C5_ReturnsMaxEligible ==
    TagLookupReturned =>
        /\ ui_version \in ReturnedTags
        /\ Eligible(ui_version, prerelease)
        /\ \A t \in ReturnedTags : Eligible(t, prerelease) => NotAbove(t, ui_version)

C5_Witness ==
    /\ TagLookupReturned
    /\ ~prerelease
    /\ repo.names = <<Tag_1_0_10, Tag_1_0_10_rc10, Tag_1_0_5>>
    /\ repo.per_page = 2
    /\ ui_version = Tag_1_0_10

(***************************************************************************)
(* C6 (as stated): for the tags v1.0.0, v1.1.0-rc.1, v1.0.5, garbage, with *)
(* prereleases excluded, get_latest_tag returns v1.0.5.                    *)
(***************************************************************************)
C6_ScenarioReturnsV105 ==
    [][(repo = ScenarioRepo /\ ~prerelease /\ pc = "tags_return" /\ pc' # pc) =>
            pc' = "construct" /\ ui_version' = Tag_v1_0_5]_vars

(***************************************************************************)
(* C6 (amended): the parser rejects a leading "v", so for the tags v1.0.0, *)
(* v1.1.0-rc.1, v1.0.5, garbage every tag is discarded and get_latest_tag  *)
(* returns nothing (IndexError on the empty list); for the same tags       *)
(* without the "v" (1.0.0, 1.1.0-rc.1, 1.0.5, garbage) it returns 1.0.5.   *)
(***************************************************************************)
C6_ScenarioWithoutV ==
    [][(~prerelease /\ pc = "tags_return" /\ pc' # pc) =>
          /\ repo = ScenarioRepo =>
                pc' = "aborted" /\ error' = "IndexError" /\ ui_version' = <<>>
          /\ repo = PlainRepo => pc' = "construct" /\ ui_version' = Tag_1_0_5]_vars

C6_Witness ==
    /\ repo = ScenarioRepo
    /\ pc = "aborted"
    /\ error = "IndexError"
    /\ i = 2
    /\ tags = <<>>

(***************************************************************************)
(* C7 (as stated): one call of get_latest_tag issues at most 100 page      *)
(* requests and requests no page above 100. (i is both the number of       *)
(* requests made and the highest page requested.)                          *)
(***************************************************************************)
C7_AtMost100Requests == i <= PageCap

(***************************************************************************)
(* C8: get_latest_tag always terminates; the loop ends at the first empty  *)
(* page or at the page cap, whichever comes first, and no page after an    *)
(* empty page is requested.                                                *)
(***************************************************************************)
TagLookupEnded == pc \in {"construct", "aborted"}

C8_PaginationTerminates ==
    /\ <>TagLookupEnded
    /\ [](\A n \in 1..(i - 1) : Page(repo, n) # <<>>)
    /\ [](pc = "tags_loop" => \A n \in 1..i : Page(repo, n) # <<>>)
    /\ [](pc = "tags_return" => (i >= 1 /\ Page(repo, i) = <<>>) \/ ~LoopGuard(i))
    /\ [][pc = "tags_loop" /\ LoopGuard(i) => i' = i + 1]_vars

C8_Witness ==
    /\ pc = "construct"
    /\ ~LoopGuard(i)
    /\ \A n \in 1..i : Page(repo, n) # <<>>

(***************************************************************************)
(* C9: when the repository has no tag, or no returned tag is eligible,     *)
(* get_latest_tag raises instead of returning (the IndexError of [-1] on   *)
(* the empty list, which it raises in no other case), and the run then     *)
(* ends with no Pin constructed and pin.json not written.                  *)
(***************************************************************************)
NoneEligible == \A t \in ReturnedTags : ~Eligible(t, prerelease)

\* The tag lookup has run to its return statement and beyond
TagLookupCompleted ==
    /\ pc \notin {"get_latest_release", "get_latest_tag", "tags_loop", "tags_return"}
    /\ error \notin {"HTTPError", "URLError"}

C9_EmptyResultRaises ==
    /\ [](TagLookupCompleted /\ NoneEligible =>
            /\ pc = "aborted"
            /\ error = "IndexError"
            /\ ui_version = <<>>
            /\ pin = NoPin
            /\ WritesOf(events) = 0)
    /\ [](pc = "aborted" /\ error = "IndexError" /\ pin = NoPin => NoneEligible)
    /\ [][(pc = "tags_return" /\ tags = <<>>) => file' = file /\ pin' = NoPin]_vars

C9_Witness ==
    /\ pc = "aborted"
    /\ error = "IndexError"
    /\ repo = EmptyRepo
    /\ pin = NoPin
    /\ run = 2
    /\ file.exists

(***************************************************************************)
(* C10 (as stated): when nix-build exits with 1 and some line of its       *)
(* standard error has "got:" as its first word, get_fod_hash returns the   *)
(* second word of the last such line.                                      *)
(***************************************************************************)
LinesOf(text) == SplitOn(text, "\n")
GotLines(text) ==
    {k \in 1..Len(LinesOf(text)) :
        Words(LinesOf(text)[k]) # <<>> /\ Words(LinesOf(text)[k])[1] = <<"got:">>}
LastGotLine(text) ==
    Words(LinesOf(text)[CHOOSE k \in GotLines(text) : \A j \in GotLines(text) : j <= k])

C10_ReturnsLastGotToken ==
    (pc = "get_fod_hash_done" /\ probe_rc = 1 /\ GotLines(probe_stderr) # {}) =>
        /\ probe_out.ok
        /\ Len(LastGotLine(probe_stderr)) >= 2
        /\ probe_out.value = LastGotLine(probe_stderr)[2]

(***************************************************************************)
(* C11: whenever nix-build ends with an exit code other than 1 (0, 2 or    *)
(* more, or killed by a signal), get_fod_hash raises "Expected nix-build   *)
(* to fail" and returns nothing, even if the standard error has a "got:"   *)
(* line; the run aborts with the Pin and pin.json as they were, the field  *)
(* the probe was to fill still empty, and pin.json is not written again.   *)
(***************************************************************************)
ProbePcs == {"server_probe", "ui_probe"}
UnexpectedExit == "ValueError: Expected nix-build to fail"

\* The checksum field each probe is to fill
ProbedField(step) ==
    IF step = "probe_server" THEN "serverCargoSha256" ELSE "uiYarnDepsSha256"

C11_OtherExitCodeRaises ==
    /\ [][(pc \in ProbePcs /\ pc' # pc /\ probe_rc' # 1) =>
            /\ ~probe_out'.ok
            /\ pc' = "aborted"
            /\ error' = UnexpectedExit
            /\ pin' = pin
            /\ file' = file
            /\ WritesOf(events') = WritesOf(events)]_vars
    /\ [][(pc \in ProbePcs /\ pc' # pc /\ probe_rc' = 1) => error' # UnexpectedExit]_vars
    /\ [](error = UnexpectedExit =>
            /\ pc = "aborted"
            /\ probe_rc # 1
            /\ pin[ProbedField(events[Len(events)])] = <<>>
            /\ file = Dumped(pin))
    /\ [][(error = UnexpectedExit /\ run' = run) => file' = file /\ events' = events]_vars

C11_Witness ==
    /\ pc = "aborted"
    /\ error = UnexpectedExit
    /\ probe_rc = 0
    /\ GotLines(probe_stderr) # {}
    /\ events[Len(events)] = "probe_ui"
    /\ pin.uiYarnDepsSha256 = <<>>
    /\ pin.serverCargoSha256 # <<>>

(***************************************************************************)
(* C12 (as stated): when nix-build exits with 1, get_fod_hash raises "No   *)
(* fixed output hash found" exactly when no line of the standard error has *)
(* "got:" as its first word, and in every other case returns a checksum    *)
(* word; a "got:" line without a second word causes no other failure.      *)
(***************************************************************************)
HashNotFound == "ValueError: No fixed output hash found"

C12_NotFoundIffNoGotLine ==
    (pc = "get_fod_hash_done" /\ probe_rc = 1) =>
        IF GotLines(probe_stderr) = {}
        THEN ~probe_out.ok /\ probe_out.error = HashNotFound
        ELSE probe_out.ok /\ probe_out.value # <<>> /\ probe_out.error = ""

(***************************************************************************)
(* C13: what prefetch_github returns always starts with "sha256-"; a raw   *)
(* value without the prefix comes back with the prefix prepended once, a   *)
(* raw value that has it comes back unchanged, and normalising the result  *)
(* again changes nothing.                                                  *)
(***************************************************************************)
C13_NormalizedOnce ==
    pc = "prefetch_github_done" =>
        /\ StartsWith(prefetch_out, Sha256Prefix)
        /\ ~StartsWith(prefetch_in, Sha256Prefix) => prefetch_out = Sha256Prefix \o prefetch_in
        /\ StartsWith(prefetch_in, Sha256Prefix) => prefetch_out = prefetch_in
        /\ prefetch_github(prefetch_out) = prefetch_out

C13_Witness ==
    /\ pc = "prefetch_github_done"
    /\ prefetch_in = Sha256Prefix \o <<"A", "-", "s">>
    /\ prefetch_out = prefetch_in

(***************************************************************************)
(* C14: after every completed write pin.json holds exactly the six keys    *)
(* serverVersion, uiVersion, serverSha256, serverCargoSha256, uiSha256,    *)
(* uiYarnDepsSha256, in that order, with the values the Pin has at the     *)
(* time of the write, and never the filename; the write leaves the Pin,    *)
(* filename included, as it was.                                           *)
(***************************************************************************)
DataKeys ==
    <<"serverVersion", "uiVersion", "serverSha256", "serverCargoSha256",
      "uiSha256", "uiYarnDepsSha256">>

WriteCompleted == WritesOf(events') = WritesOf(events) + 1

C14_SixKeysNoFilename ==
    /\ [][WriteCompleted =>
            /\ file'.exists
            /\ file'.doc = [k \in 1..Len(DataKeys) |-> <<DataKeys[k], pin[DataKeys[k]]>>]
            /\ pin' = pin
            /\ pin'.filename = PinFilename]_vars
    /\ [](\A k \in 1..Len(file.doc) : file.doc[k][1] # "filename")
    /\ [](Len(file.doc) \in {0, Len(DataKeys)})

C14_Witness ==
    /\ pc = "ui_probe"
    /\ WritesOf(events) = 3
    /\ file.doc = [k \in 1..Len(DataKeys) |-> <<DataKeys[k], pin[DataKeys[k]]>>]
    /\ pin.uiSha256 # <<>>
    /\ pin.filename = PinFilename

(***************************************************************************)
(* C15: writing the same Pin twice in a row, with no field changed in      *)
(* between, leaves pin.json after the second write with the content it had *)
(* after the first, whatever it held before the first.                     *)
(***************************************************************************)
C15_WriteTwiceIsWriteOnce ==
    /\ [](pc = "write_2" => file = Dumped(pin))
    /\ [][(pc = "write_2" /\ pc' = "write_done") =>
            file' = file /\ pin' = pin]_vars
    /\ [](pc = "write_done" => file = Dumped(pin) /\ WritesOf(events) = 2)

C15_Witness ==
    /\ pc = "write_done"
    /\ WritesOf(events) = 2
    /\ pin.serverSha256 # <<>>
    /\ pin.uiYarnDepsSha256 = <<>>
    /\ file = Dumped(pin)

(***************************************************************************)
(* What a run does and leaves behind, computed from the answers it got     *)
(***************************************************************************)
RunEnded == pc \in {"done", "aborted"}

\* Every tag the API serves on the pages get_latest_tag can request
AllServed(r) ==
    LET reach == (PageCap + 1) * r.per_page
    IN  [k \in 1..(IF r.count < reach THEN r.count ELSE reach) |-> TagAt(r, k)]

\* The highest eligible tag among them ("" if there is none)
LatestOf(r, pre) ==
    LET kept == KeptOf(AllServed(r), pre)
    IN  IF kept = <<>> THEN <<>> ELSE SortedAt(kept, Len(kept))

\* The same for the repositories of the runs, each computed once
LatestTable == [r \in Repos |-> LatestOf(r, FALSE)]
Latest(r, pre) == IF ~pre /\ r \in Repos THEN LatestTable[r] ELSE LatestOf(r, pre)

\* What an answer amounts to for the script ("" if it makes the step fail)
Yield(e, pre) ==
    IF ~e.ok THEN <<>>
    ELSE IF e.step = "get_latest_tag" THEN Latest(e.value, pre)
    ELSE IF e.step \in {"prefetch_server", "prefetch_ui"} THEN prefetch_github(e.value)
    ELSE IF e.step \in {"probe_server", "probe_ui"}
         THEN LET out == get_fod_hash(e.value.rc, e.value.stderr)
              IN  IF out.ok THEN out.value ELSE <<>>
    ELSE e.value

\* The step goes through and the run continues
Continues(e, pre) ==
    /\ e.ok
    /\ e.step = "get_latest_tag" => Latest(e.value, pre) # <<>>
    /\ e.step \in {"probe_server", "probe_ui"} =>
            get_fod_hash(e.value.rc, e.value.stderr).ok

YieldOf(log, step, pre) ==
    IF \E k \in 1..Len(log) : log[k].step = step
    THEN Yield(log[CHOOSE k \in 1..Len(log) : log[k].step = step], pre)
    ELSE <<>>

\* The record a run with these answers writes last
DocOf(log, pre) ==
    << <<"serverVersion", YieldOf(log, "get_latest_release", pre)>>,
       <<"uiVersion", YieldOf(log, "get_latest_tag", pre)>>,
       <<"serverSha256", YieldOf(log, "prefetch_server", pre)>>,
       <<"serverCargoSha256", YieldOf(log, "probe_server", pre)>>,
       <<"uiSha256", YieldOf(log, "prefetch_ui", pre)>>,
       <<"uiYarnDepsSha256", YieldOf(log, "probe_ui", pre)>> >>

\* The answers take the run as far as its first pin.write()
ReachesFirstWrite(log, pre) ==
    Len(log) >= 3 /\ \A k \in 1..3 : Continues(log[k], pre)

\* The steps of a run are decided by its answers: one answer per step, in the
\* fixed order, and the run goes on exactly as long as the answers let it
StepsFollowAnswers ==
    /\ Len(responses) \in 1..Len(StepOrder)
    /\ StepsOf(events) = SubSeq(StepOrder, 1, Len(responses))
    /\ \A k \in 1..Len(responses) : responses[k].step = StepOrder[k]
    /\ \A k \in 1..(Len(responses) - 1) : Continues(responses[k], prerelease)
    /\ pc = "done" <=>
            /\ Len(responses) = Len(StepOrder)
            /\ Continues(responses[Len(responses)], prerelease)
    /\ pc = "aborted" <=> ~Continues(responses[Len(responses)], prerelease)

(***************************************************************************)
(* C16 (as stated): the steps a run performs and the content it leaves in  *)
(* pin.json are decided by the answers of the API, nix-prefetch-github and *)
(* nix-build alone, whatever pin.json held before the run: the file is     *)
(* the last record those answers lead to, or absent as for a first run     *)
(* when they lead to no write. (Runs in which a write itself fails are     *)
(* left aside.)                                                            *)
(***************************************************************************)
C16_AnswersDecideFinalFile ==
    (RunEnded /\ error \notin WriteErrors) =>
        /\ StepsFollowAnswers
        /\ file = IF ReachesFirstWrite(responses, prerelease)
                  THEN [exists |-> TRUE, doc |-> DocOf(responses, prerelease)]
                  ELSE Absent

(***************************************************************************)
(* C16 (amended): pin.json is never read and no step is skipped because of *)
(* it: the steps of a run are decided by the answers alone, and so is the  *)
(* final content of pin.json provided the answers take the run to its      *)
(* first write; a run that ends before its first write leaves pin.json as  *)
(* it was before the run, so its final content is the earlier content.     *)
(***************************************************************************)
C16_AnswersDecideOnceWritten ==
    /\ []((RunEnded /\ error \notin WriteErrors) =>
            /\ StepsFollowAnswers
            /\ IF ReachesFirstWrite(responses, prerelease)
               THEN file = [exists |-> TRUE, doc |-> DocOf(responses, prerelease)]
               ELSE WritesOf(events) = 0)
    /\ [][(run' = run /\ WritesOf(events') = 0 /\ error' \notin WriteErrors) =>
            file' = file]_vars

C16_Witness ==
    /\ run = 2
    /\ pc = "aborted"
    /\ error = HashNotFound
    /\ Len(responses) = 4
    /\ written.run = 2
    /\ file.doc = DocOf(responses, prerelease)
    /\ file.doc[4][2] = <<>>

(***************************************************************************)
(* C17: when a fixed-output hash probe is about to start, pin.json already *)
(* holds this run's version and source checksum of the component and ""    *)
(* in the field the probe is to fill (serverCargoSha256 before the server  *)
(* probe, uiYarnDepsSha256 before the UI probe), and before the UI probe   *)
(* the copy of package.json of this run is on disk; this holds whatever    *)
(* pin.json held before the run.                                           *)
(***************************************************************************)
C17_ProbeSeesEmptyHash ==
    /\ pc = "server_probe" =>
            /\ server_version # <<>>
            /\ server_version = YieldOf(responses, "get_latest_release", prerelease)
            /\ FileHas("serverVersion", server_version)
            /\ pin.serverSha256 # <<>>
            /\ pin.serverSha256 = YieldOf(responses, "prefetch_server", prerelease)
            /\ FileHas("serverSha256", pin.serverSha256)
            /\ FileHas("serverCargoSha256", <<>>)
    /\ pc = "ui_probe" =>
            /\ ui_version # <<>>
            /\ ui_version = YieldOf(responses, "get_latest_tag", prerelease)
            /\ FileHas("uiVersion", ui_version)
            /\ pin.uiSha256 # <<>>
            /\ pin.uiSha256 = YieldOf(responses, "prefetch_ui", prerelease)
            /\ FileHas("uiSha256", pin.uiSha256)
            /\ FileHas("uiYarnDepsSha256", <<>>)
            /\ package_json =
                    [exists |-> TRUE, doc |-> YieldOf(responses, "package_json", prerelease)]

C17_Witness ==
    /\ run = 2
    /\ pc = "ui_probe"
    /\ FileHas("uiYarnDepsSha256", <<>>)
    /\ FileHas("uiVersion", Tag_1_0_10)
    /\ package_json.doc = <<"m2">>

(***************************************************************************)
(* C18: after any sequence of runs, each completed or aborted anywhere,    *)
(* pin.json (when it exists and its last write completed) is the record of *)
(* one run: its two versions and every non-empty checksum in it are what   *)
(* the answers of that single run yield, and the checksums it does not     *)
(* have from that run are "". Nothing of an earlier run is mixed in.       *)
(***************************************************************************)
LastWriteCompleted == file.exists /\ file # Truncated

C18_RecordOfOneRun ==
    LastWriteCompleted =>
        /\ written.run \in 1..run
        /\ written.run = run => IsPrefix(written.responses, responses)
        /\ file.doc = DocOf(written.responses, prerelease)
        /\ file.doc[1][2] # <<>> /\ file.doc[2][2] # <<>> /\ file.doc[3][2] # <<>>

C18_Witness ==
    /\ run = 2
    /\ written.run = 2
    /\ pc = "aborted"
    /\ StepsOf(events) = SubSeq(StepOrder, 1, 4)
    /\ package_json.exists
    /\ LastWriteCompleted
    /\ file.doc[4][2] = <<>>

(***************************************************************************)
(* C19: within one run every write holds the same serverVersion and        *)
(* uiVersion, a checksum once written non-empty has that value in every    *)
(* later write of the run, the server steps leave the Pin's uiSha256 and   *)
(* uiYarnDepsSha256 as they are and the UI steps leave its serverSha256    *)
(* and serverCargoSha256 as they are.                                      *)
(***************************************************************************)
ServerPcs == {"server_prefetch", "server_write_1", "server_probe", "server_write_2"}
UiPcs == {"package_json", "ui_prefetch", "ui_write_1", "ui_probe", "ui_write_2"}

C19_WritesAgreeAndFrames ==
    /\ [][(WriteCompleted /\ WritesOf(events) >= 1) =>
            /\ file'.doc[1] = file.doc[1]
            /\ file'.doc[2] = file.doc[2]
            /\ \A k \in 3..Len(DataKeys) :
                    file.doc[k][2] # <<>> => file'.doc[k] = file.doc[k]]_vars
    /\ [][(pc \in ServerPcs \cup UiPcs /\ run' = run) =>
            /\ pin'.serverVersion = pin.serverVersion
            /\ pin'.uiVersion = pin.uiVersion]_vars
    /\ [][(pc \in ServerPcs /\ run' = run) =>
            /\ pin'.uiSha256 = pin.uiSha256
            /\ pin'.uiYarnDepsSha256 = pin.uiYarnDepsSha256
            /\ WriteCompleted =>
                    FileHas("uiSha256", pin.uiSha256)' /\
                    FileHas("uiYarnDepsSha256", pin.uiYarnDepsSha256)']_vars
    /\ [][(pc \in UiPcs /\ run' = run) =>
            /\ pin'.serverSha256 = pin.serverSha256
            /\ pin'.serverCargoSha256 = pin.serverCargoSha256
            /\ WriteCompleted =>
                    FileHas("serverSha256", pin.serverSha256)' /\
                    FileHas("serverCargoSha256", pin.serverCargoSha256)']_vars

C19_Witness ==
    /\ pc = "done"
    /\ run = 2
    /\ WritesOf(events) = 4
    /\ FileHas("serverSha256", Sha256Prefix \o <<"A">>)
    /\ FileHas("uiSha256", Sha256Prefix \o <<"B">>)
    /\ FileHas("serverCargoSha256", <<"h1">>)
    /\ FileHas("uiYarnDepsSha256", <<"h2">>)

(***************************************************************************)
(* C20: when a run completes with no step failing, pin.json equals the Pin *)
(* in memory, its two versions are the release tag and the tag that were   *)
(* resolved, its four checksums are non-empty and are what the two         *)
(* prefetches returned after normalisation and what the two probes         *)
(* returned, and pin.json was written exactly four times in the run.       *)
(***************************************************************************)
C20_CompletedRunIsFull ==
    pc = "done" =>
        /\ error = ""
        /\ file = Dumped(pin)
        /\ file.doc = [k \in 1..Len(DataKeys) |-> <<DataKeys[k], pin[DataKeys[k]]>>]
        /\ pin.serverVersion = server_version
        /\ pin.uiVersion = ui_version
        /\ server_version = responses[1].value
        /\ ui_version = Latest(responses[2].value, prerelease)
        /\ pin.serverSha256 = prefetch_github(responses[3].value)
        /\ pin.serverCargoSha256 = LastGotLine(responses[4].value.stderr)[2]
        /\ pin.uiSha256 = prefetch_github(responses[6].value)
        /\ pin.uiYarnDepsSha256 = LastGotLine(responses[7].value.stderr)[2]
        /\ \A f \in ChecksumFields : pin[f] # <<>>
        /\ StartsWith(pin.serverSha256, Sha256Prefix)
        /\ StartsWith(pin.uiSha256, Sha256Prefix)
        /\ responses[4].value.rc = 1 /\ responses[7].value.rc = 1
        /\ WritesOf(events) = 4

C20_Witness ==
    /\ pc = "done"
    /\ run = 1
    /\ repo = HugeRepo
    /\ WritesOf(events) = 4
    /\ file = Dumped(pin)
    /\ pin.serverSha256 = Sha256Prefix \o <<"B">>
    /\ pin.uiSha256 = Sha256Prefix \o <<"A">>
    /\ pin.uiYarnDepsSha256 = <<"h1">>

====
